---- MODULE Spec2Model ----
(***************************************************************************)
(* A model of the packet transformation stages of src/plugins.py.          *)
(*                                                                         *)
(* Python values are modelled as follows.  A dict is a function whose      *)
(* domain is the set of its keys (so "k in d" is k \in DOMAIN d and a      *)
(* missing key is a KeyError, never a default).  A list is a sequence.     *)
(* A str that is matched by patterns is a sequence of one-letter strings.  *)
(* None is the record None.  Every call of a do_action ends in one of two  *)
(* ways: it returns a value (possibly None, the dropped marker) or it      *)
(* raises; the model records which, and the log record the call wrote.     *)
(***************************************************************************)
EXTENDS Integers, Sequences, FiniteSets, TLC

VARIABLES
    packet,         \* the argument of the do_action call
    config,         \* self.config of the stage, set by Plugin.configure
    devices,        \* self.devices: the device registry, by name
    applied,        \* the calls made so far: <<[plugin, input]>>, in order
    result,         \* outcome of the last call: Pending before, Return/Raise after
    interface,      \* self.interface: the connected radio, or None
    telemetry_seq,  \* AprsPlugin.telemetry_seq
    sent,           \* what the last call handed to self.aprs.sendall, in order
    seq_before,     \* history: telemetry_seq when the last call began
    emitted,        \* history: the sequence numbers of the last two IGate beacons sent
    announced,      \* history: how many telemetry-schema announcements were sent
    mqtt_servers,   \* self.mqtt_servers: the broker connections, by name
    configured,     \* history: the config that Plugin.configure was given
    threads,        \* the calls of report_self_position under way, by thread
    published,      \* history: the sequence numbers of the beacons those calls sent
    delivered       \* what the last call posted to a webhook or published to the relays

aprsVars == <<interface, telemetry_seq, sent, seq_before, emitted, announced>>

restVars == <<mqtt_servers, configured, threads, published, delivered>>

vars == <<packet, config, devices, applied, result, aprsVars, restVars>>

----------------------------------------------------------------------------
(* Python values *)

None == [py |-> "None"]

EmptyDict == <<>>

Has(d, k) == k \in DOMAIN d

\* the dicts {} and {key: v} for v in S: an optional key
Opt(key, S) == {EmptyDict} \cup {key :> v : v \in S}

\* x in list
InList(x, list) == \E i \in 1..Len(list) : list[i] = x

\* all lists over S of length at most n
ListsUpTo(S, n) == UNION {[1..m -> S] : m \in 0..n}

(* the outcome of a call *)
Pending == [kind |-> "pending"]

Return(value, log) == [kind |-> "return", value |-> value, log |-> log]

Raise(exc) == [kind |-> "raise", exc |-> exc]

Dropped(r) == r.kind = "return" /\ r.value = None

\* one call: the plugin (its name in the plugins registry) and its argument
Call(plugin, input) == [plugin |-> plugin, input |-> input]

\* the APRS plugin as the module leaves it when it is loaded: line 427
AprsIdle ==
    /\ interface = None
    /\ telemetry_seq = -1
    /\ sent = <<>>
    /\ seq_before = -1
    /\ emitted = <<>>
    /\ announced = 0

\* no broker, no call under way, and the config as Plugin.configure was given it
RestIdle ==
    /\ mqtt_servers = EmptyDict
    /\ configured = config
    /\ threads = EmptyDict
    /\ published = <<>>
    /\ delivered = <<>>

----------------------------------------------------------------------------
(* re.search for the patterns  ^?literal$?  : an optional start anchor, a  *)
(* literal, an optional end anchor.  [bol |-> FALSE, lit |-> <<"e","l">>,  *)
(* eol |-> FALSE] is the pattern "el"; [bol |-> TRUE, lit |-> <<>>,        *)
(* eol |-> TRUE] is "^$".                                                  *)

ReSearch(regex, text) ==
    \E i \in 0..(Len(text) - Len(regex.lit)) :
        /\ SubSeq(text, i + 1, i + Len(regex.lit)) = regex.lit
        /\ regex.bol => i = 0
        /\ regex.eol => i + Len(regex.lit) = Len(text)

----------------------------------------------------------------------------
(* MessageFilter *)

\* the loops of lines 121-124 and 133-136: does some pattern of the list match
AnyMatch(regexes, text) ==
    \E i \in 1..Len(regexes) : ReSearch(regexes[i], text)

\* "if not packet": None and the empty dict are false
PacketFalsy(p) == p = None \/ DOMAIN p = {}

\* line 117; the text as a zero- or one-element sequence (<<>> is Python's None)
DecodedText(p) ==
    IF Has(p.decoded, "text") THEN <<p.decoded.text>> ELSE <<>>

\* "if text": None and the empty string are false
TextTruthy(t) == t # <<>> /\ t[1] # <<>>

\* lines 119-142: the message rule; the log record of the drop, or <<>>
MessageRule(text, cfg) ==
    IF ~(TextTruthy(text) /\ Has(cfg, "message")) THEN <<>>
    ELSE IF Has(cfg.message, "allow") /\ ~AnyMatch(cfg.message.allow, text[1])
         THEN <<"message", "allow">>
    ELSE IF Has(cfg.message, "disallow") /\ AnyMatch(cfg.message.disallow, text[1])
         THEN <<"message", "disallow">>
    ELSE <<>>

FilterKeys == <<"app", "from", "to">>

\* lines 144-148: the dict of the three attribute values
Filters(p) == [app |-> p.decoded.portnum, from |-> p.fromId, to |-> p.toId]

\* AttributeRule without its allow list
AttributeRule_NoAllow(filter_key, value, filter_val) ==
    IF /\ Has(filter_val, "disallow")
       /\ filter_val.disallow # <<>>
       /\ InList(value, filter_val.disallow)
    THEN <<filter_key, "disallow">>
    ELSE <<>>

\* lines 154-172: one attribute against its allow and disallow lists
AttributeRule(filter_key, value, filter_val) ==
    IF /\ Has(filter_val, "allow")
       /\ filter_val.allow # <<>>
       /\ ~InList(value, filter_val.allow)
    THEN <<filter_key, "allow">>
    ELSE IF /\ Has(filter_val, "disallow")
            /\ filter_val.disallow # <<>>
            /\ InList(value, filter_val.disallow)
    THEN <<filter_key, "disallow">>
    ELSE <<>>

\* lines 150-172: the loop over app, from, to, from the i-th on
RECURSIVE AttributeRules(_, _, _)
AttributeRules(i, filters, cfg) ==
    IF i > Len(FilterKeys) THEN <<>>
    ELSE LET filter_key == FilterKeys[i]
             verdict == IF Has(cfg, filter_key)
                        THEN AttributeRule(filter_key, filters[filter_key],
                                           cfg[filter_key])
                        ELSE <<>>
         IN  IF verdict # <<>> THEN verdict
             ELSE AttributeRules(i + 1, filters, cfg)

MessageFilter_do_action(p, cfg) ==
    IF PacketFalsy(p) THEN Return(p, <<"Missing packet">>)
    ELSE IF ~Has(p, "decoded") THEN Raise("KeyError")
    ELSE LET byMessage == MessageRule(DecodedText(p), cfg)
         IN  IF byMessage # <<>> THEN Return(None, byMessage)
             ELSE IF ~(Has(p.decoded, "portnum") /\ Has(p, "fromId") /\ Has(p, "toId"))
                  THEN Raise("KeyError")
             ELSE LET byAttribute == AttributeRules(1, Filters(p), cfg)
                  IN  IF byAttribute # <<>> THEN Return(None, byAttribute)
                      ELSE Return(p, <<"Accepted">>)

----------------------------------------------------------------------------
(* the inputs of the MessageFilter specification *)

MaxTextLen == 2
MaxPatterns == 2
MaxIds == 1

Chars == {"e", "l"}

Texts == ListsUpTo(Chars, MaxTextLen)

\* the patterns "e", "^l", "" and "^$"
Patterns ==
    { [bol |-> FALSE, lit |-> <<"e">>, eol |-> FALSE],
      [bol |-> TRUE,  lit |-> <<"l">>, eol |-> FALSE],
      [bol |-> FALSE, lit |-> <<>>,    eol |-> FALSE],
      [bol |-> TRUE,  lit |-> <<>>,    eol |-> TRUE] }

Ids == {"!a", "!b"}

Apps == {"TEXT_MESSAGE_APP", "POSITION_APP"}

\* a rule: a dict with an optional allow list and an optional disallow list
Rules(S, n) ==
    {a @@ d : a \in Opt("allow", ListsUpTo(S, n)),
              d \in Opt("disallow", ListsUpTo(S, n))}

\* packets that carry every field the stage reads, with any text
TextPackets ==
    {[fromId |-> "!a", toId |-> "!b", decoded |-> ([portnum |-> "TEXT_MESSAGE_APP"] @@ t)] :
        t \in Opt("text", Texts)}

\* packets that carry every field the stage reads, with any sender
SenderPackets ==
    {[fromId |-> f, toId |-> "!b", decoded |-> [portnum |-> "TEXT_MESSAGE_APP"]] :
        f \in Ids}

\* no packet, the empty packet, and packets that lack a field the stage reads
OddPackets ==
    { None, EmptyDict,
      [fromId |-> "!a", toId |-> "!b"],
      [fromId |-> "!a", toId |-> "!b", decoded |-> [text |-> <<"e">>]],
      [fromId |-> "!a", toId |-> "!b", decoded |-> EmptyDict],
      [toId |-> "!b", decoded |-> [portnum |-> "TEXT_MESSAGE_APP"]],
      [fromId |-> "!a", decoded |-> [portnum |-> "TEXT_MESSAGE_APP", text |-> <<"l">>]] }

MessageConfigs ==
    {m @@ f : m \in Opt("message", Rules(Patterns, MaxPatterns)),
              f \in Opt("from", {[disallow |-> <<"!a">>], [allow |-> <<"!b">>]})}

AttributeConfigs ==
    {a @@ f @@ t : a \in Opt("app", Rules(Apps, MaxIds)),
                   f \in Opt("from", Rules(Ids, MaxIds)),
                   t \in Opt("to", Rules(Ids, MaxIds))}

OddConfigs ==
    {EmptyDict, [message |-> [allow |-> <<>>]], [from |-> [disallow |-> <<"!a">>]],
     [message |-> [disallow |-> <<[bol |-> FALSE, lit |-> <<>>, eol |-> FALSE]>>]]}

FilterInputs ==
    (TextPackets \X MessageConfigs)
        \cup (SenderPackets \X AttributeConfigs)
        \cup (OddPackets \X OddConfigs)

InitFilter ==
    /\ \E input \in FilterInputs : packet = input[1] /\ config = input[2]
    /\ devices = EmptyDict
    /\ applied = <<>>
    /\ result = Pending
    /\ AprsIdle
    /\ RestIdle

\* one call of MessageFilter.do_action
MessageFilterApply ==
    /\ result = Pending
    /\ result' = MessageFilter_do_action(packet, config)
    /\ applied' = Append(applied, Call("message_filter", packet))
    /\ UNCHANGED <<packet, config, devices, aprsVars, restVars>>

NextFilter == MessageFilterApply

SpecFilter == InitFilter /\ [][NextFilter]_vars

----------------------------------------------------------------------------
(* Claims about MessageFilter, checked under SpecFilter *)

\* the packet carries decoded.text (of any length, the empty text included)
TextPresent(p) == ~PacketFalsy(p) /\ Has(p, "decoded") /\ Has(p.decoded, "text")

\* C1: for every packet whose decoded.text is present and every message
\* config, a non-empty allow list none of whose patterns matches the text
\* drops the packet, and a disallow pattern that matches the text drops the
\* packet whether or not an allow pattern matched.
C1_MessagePatterns ==
    (result # Pending /\ TextPresent(packet) /\ Has(config, "message")) =>
        LET text == packet.decoded.text
            message == config.message
        IN  /\ ( /\ Has(message, "allow")
                 /\ message.allow # <<>>
                 /\ ~AnyMatch(message.allow, text) ) => Dropped(result)
            /\ ( /\ Has(message, "disallow")
                 /\ AnyMatch(message.disallow, text) ) => Dropped(result)

\* The same statement for packets whose text is not empty: this one holds.
C1_NonEmptyText ==
    (TextPresent(packet) /\ packet.decoded.text = <<>>) \/ C1_MessagePatterns

\* a rule without the allow and disallow keys whose list is empty
WithoutEmptyLists(rule) ==
    [k \in {j \in DOMAIN rule : rule[j] # <<>>} |-> rule[k]]

\* a config in which every empty list is absent
EmptyListsAbsent(cfg) == [k \in DOMAIN cfg |-> WithoutEmptyLists(cfg[k])]

\* C2: an empty allow or disallow list, under message, app, from or to, is
\* treated exactly as if the list were absent: the call ends as it does
\* under the config without the empty lists.
C2_EmptyListsAsAbsent ==
    result # Pending =>
        result = MessageFilter_do_action(packet, EmptyListsAbsent(config))

\* The same statement for the three attribute rules alone: this one holds.
C2_AttributesOnly ==
    Has(config, "message") \/ C2_EmptyListsAsAbsent

\* the packet carries the three attributes the rules are about
HasAttributes(p) ==
    /\ ~PacketFalsy(p)
    /\ Has(p, "decoded") /\ Has(p.decoded, "portnum")
    /\ Has(p, "fromId") /\ Has(p, "toId")

\* the membership rule: value is outside a non-empty allow list
OutsideAllow(cfg, key, value) ==
    /\ Has(cfg, key) /\ Has(cfg[key], "allow")
    /\ cfg[key].allow # <<>>
    /\ \A i \in 1..Len(cfg[key].allow) : cfg[key].allow[i] # value

\* the membership rule: value is in the disallow list
InsideDisallow(cfg, key, value) ==
    /\ Has(cfg, key) /\ Has(cfg[key], "disallow")
    /\ \E i \in 1..Len(cfg[key].disallow) : cfg[key].disallow[i] = value

AttributeOf(p, key) ==
    CASE key = "app" -> p.decoded.portnum
      [] key = "from" -> p.fromId
      [] key = "to" -> p.toId

Violated(cfg, p) ==
    {i \in 1..3 : \/ OutsideAllow(cfg, FilterKeys[i], AttributeOf(p, FilterKeys[i]))
                  \/ InsideDisallow(cfg, FilterKeys[i], AttributeOf(p, FilterKeys[i]))}

\* C3: a packet that the message rule lets through is dropped exactly when
\* its application id, sender id or recipient id is outside a non-empty
\* allow list or inside a disallow list; the rule that drops it is the first
\* violated one in the order app, from, to (allow before disallow); so
\* {from: {disallow: [S]}} and {from: {allow: [S2]}}, S # S2, drop every
\* packet of sender S.
C3_AttributeRules ==
    ( /\ result # Pending
      /\ HasAttributes(packet)
      /\ MessageRule(DecodedText(packet), config) = <<>> ) =>
        LET violated == Violated(config, packet)
            first == CHOOSE i \in violated : \A j \in violated : i <= j
            key == FilterKeys[first]
        IN  /\ violated = {} => result = Return(packet, <<"Accepted">>)
            /\ violated # {} =>
                /\ Dropped(result)
                /\ result.log[1] = key
                /\ result.log[2] = "allow"
                      <=> OutsideAllow(config, key, AttributeOf(packet, key))
            /\ ( \/ config = [from |-> [disallow |-> <<packet.fromId>>]]
                 \/ \E s2 \in Ids \ {packet.fromId} :
                        config = [from |-> [allow |-> <<s2>>]] ) => Dropped(result)

\* a packet dropped by its sender id although its recipient id is refused too
C3_Witness ==
    /\ result # Pending
    /\ HasAttributes(packet)
    /\ Has(config, "from") /\ Has(config, "to") /\ ~Has(config, "app")
    /\ InsideDisallow(config, "from", packet.fromId)
    /\ OutsideAllow(config, "to", packet.toId)
    /\ Dropped(result)
    /\ result.log = <<"from", "disallow">>

----------------------------------------------------------------------------
(* LocationFilter *)

\* haversine() of the haversine package, in whole km, for two points of the
\* equator: 111 km for each degree of longitude between them.  A position
\* is the pair <<latitude, longitude>> in degrees.
Haversine(a, b) ==
    IF a[2] >= b[2] THEN 111 * (a[2] - b[2]) ELSE 111 * (b[2] - a[2])

\* lines 188-193: the position of the configured device; <<>> is None
DevicePosition(cfg, devs) ==
    IF ~(Has(cfg, "device") /\ Has(devs, cfg.device)) THEN <<>>
    ELSE LET nodeInfo == devs[cfg.device]
         IN  IF /\ Has(nodeInfo, "position")
                /\ Has(nodeInfo.position, "latitude")
                /\ Has(nodeInfo.position, "longitude")
             THEN << <<nodeInfo.position.latitude, nodeInfo.position.longitude>> >>
             ELSE <<"KeyError">>

\* lines 195-204: the position the packet carries; <<>> is None
MessageSourcePosition(p) ==
    IF /\ Has(p, "decoded")
       /\ Has(p.decoded, "position")
       /\ Has(p.decoded.position, "latitude")
       /\ Has(p.decoded.position, "longitude")
    THEN << <<p.decoded.position.latitude, p.decoded.position.longitude>> >>
    ELSE <<>>

\* lines 206-210: the configured reference position replaces the device's
CurrentLocalPosition(cfg, fromDevice) ==
    IF Has(cfg, "compare_latitude") /\ Has(cfg, "compare_longitude")
    THEN << <<cfg.compare_latitude, cfg.compare_longitude>> >>
    ELSE fromDevice

\* DistanceRule with the boundary on the wrong side: >= and <=
DistanceRule_Inclusive(comparison, distance_km, acceptable_distance) ==
    IF comparison = "within" /\ distance_km >= acceptable_distance
    THEN <<"Packet from too far">>
    ELSE IF comparison = "outside" /\ distance_km <= acceptable_distance
    THEN <<"Packet too close">>
    ELSE <<>>

\* lines 223-232: the log record of the drop, or <<>>
DistanceRule(comparison, distance_km, acceptable_distance) ==
    IF comparison = "within" /\ distance_km > acceptable_distance
    THEN <<"Packet from too far">>
    ELSE IF comparison = "outside" /\ distance_km < acceptable_distance
    THEN <<"Packet too close">>
    ELSE <<>>

\* lines 212-232: the distance check
DistanceCheck(source, local, cfg) ==
    IF source = <<>> \/ local = <<>> THEN <<>>
    ELSE LET distance_km == Haversine(source[1], local[1])
             comparison == IF Has(cfg, "comparison") THEN cfg.comparison
                           ELSE "within"
         IN  IF Has(cfg, "max_distance_km") /\ cfg.max_distance_km > 0
             THEN DistanceRule(comparison, distance_km, cfg.max_distance_km)
             ELSE <<>>

\* lines 234-237: the configured latitude and longitude overwrite the packet's
Masked(p, cfg) ==
    LET lat == IF Has(cfg, "latitude")
               THEN [p EXCEPT !.decoded.position =
                        ("latitude" :> cfg.latitude) @@ p.decoded.position]
               ELSE p
    IN  IF Has(cfg, "longitude")
        THEN [lat EXCEPT !.decoded.position =
                 ("longitude" :> cfg.longitude) @@ lat.decoded.position]
        ELSE lat

LocationFilter_do_action(p, cfg, devs) ==
    LET fromDevice == DevicePosition(cfg, devs)
    IN  IF fromDevice = <<"KeyError">> THEN Raise("KeyError")
        ELSE IF p = None THEN Raise("TypeError")
        ELSE LET source == MessageSourcePosition(p)
                 local == CurrentLocalPosition(cfg, fromDevice)
                 byDistance == DistanceCheck(source, local, cfg)
             IN  IF byDistance # <<>> THEN Return(None, byDistance)
                 ELSE IF /\ Has(cfg, "latitude") \/ Has(cfg, "longitude")
                         /\ ~(Has(p, "decoded") /\ Has(p.decoded, "position"))
                      THEN Raise("KeyError")
                 ELSE Return(Masked(p, cfg), <<>>)

----------------------------------------------------------------------------
(* the inputs of the LocationFilter specification *)

MaxDegrees == 2

\* points of the equator
Points == {<<0, lon>> : lon \in 0..MaxDegrees}

Position(pt) == [latitude |-> pt[1], longitude |-> pt[2]]

Thresholds == {-5, 0, 50, 200} \cup {111 * d : d \in 1..MaxDegrees}

GeoPackets ==
    {[fromId |-> "!a", decoded |-> [portnum |-> "POSITION_APP", position |-> Position(pt)]] :
        pt \in Points}
    \cup { None,
           [fromId |-> "!a"],
           [fromId |-> "!a", decoded |-> [portnum |-> "TEXT_MESSAGE_APP", text |-> <<"e">>]],
           [fromId |-> "!a", decoded |-> [portnum |-> "POSITION_APP",
                                          position |-> [latitude |-> 0]]] }

GeoConfigs ==
    {d @@ c @@ m @@ k @@ lat @@ lon :
        d \in Opt("device", {"dev", "ghost"}),
        c \in {EmptyDict, [compare_latitude |-> 0]}
                \cup {[compare_latitude |-> pt[1], compare_longitude |-> pt[2]] :
                        pt \in Points},
        m \in Opt("comparison", {"within", "outside", "near"}),
        k \in Opt("max_distance_km", Thresholds),
        lat \in Opt("latitude", {9}),
        lon \in Opt("longitude", {9})}

GeoDevices ==
    {EmptyDict, [dev |-> EmptyDict]}
        \cup {[dev |-> [position |-> Position(pt)]] : pt \in Points}

InitGeo ==
    /\ packet \in GeoPackets
    /\ config \in GeoConfigs
    /\ devices \in GeoDevices
    /\ applied = <<>>
    /\ result = Pending
    /\ AprsIdle
    /\ RestIdle

\* one call of LocationFilter.do_action
LocationFilterApply ==
    /\ result = Pending
    /\ result' = LocationFilter_do_action(packet, config, devices)
    /\ applied' = Append(applied, Call("location_filter", packet))
    /\ UNCHANGED <<packet, config, devices, aprsVars, restVars>>

NextGeo == LocationFilterApply

SpecGeo == InitGeo /\ [][NextGeo]_vars

----------------------------------------------------------------------------
(* Claims about LocationFilter, checked under SpecGeo *)

\* the configured device is registered
DeviceRegistered == Has(config, "device") /\ Has(devices, config.device)

\* the registered device reports a position
DeviceLocated ==
    /\ Has(devices[config.device], "position")
    /\ Has(devices[config.device].position, "latitude")
    /\ Has(devices[config.device].position, "longitude")

\* the reference position is resolved: the lookup of a registered device's
\* position succeeded, and the configured pair or that position is there
ReferenceResolved ==
    /\ DeviceRegistered => DeviceLocated
    /\ \/ Has(config, "compare_latitude") /\ Has(config, "compare_longitude")
       \/ DeviceRegistered

Reference ==
    IF Has(config, "compare_latitude") /\ Has(config, "compare_longitude")
    THEN <<config.compare_latitude, config.compare_longitude>>
    ELSE <<devices[config.device].position.latitude,
           devices[config.device].position.longitude>>

SourceResolved ==
    /\ packet # None
    /\ Has(packet, "decoded") /\ Has(packet.decoded, "position")
    /\ Has(packet.decoded.position, "latitude")
    /\ Has(packet.decoded.position, "longitude")

Source == <<packet.decoded.position.latitude, packet.decoded.position.longitude>>

\* both positions are resolved and the threshold is positive
GeofenceApplies ==
    /\ result # Pending
    /\ SourceResolved /\ ReferenceResolved
    /\ Has(config, "max_distance_km") /\ config.max_distance_km > 0

ComparisonMode == IF Has(config, "comparison") THEN config.comparison ELSE "within"

\* C4: with both positions resolved and a positive max_distance_km, the
\* packet is dropped under within (also the default) exactly when the
\* distance is greater than the threshold and under outside exactly when it
\* is less; a distance equal to the threshold passes under both, and the
\* distance 0 passes within.
C4_GeofenceBoundary ==
    GeofenceApplies =>
        LET distance == Haversine(Source, Reference)
            threshold == config.max_distance_km
        IN  /\ ComparisonMode = "within" => (Dropped(result) <=> distance > threshold)
            /\ ComparisonMode = "outside" => (Dropped(result) <=> distance < threshold)
            /\ (distance = threshold /\ ComparisonMode \in {"within", "outside"}) =>
                    result.kind = "return" /\ result.value # None
            /\ (distance = 0 /\ ComparisonMode = "within") =>
                    result.kind = "return" /\ result.value # None

\* a packet exactly at the threshold distance from the device passes under outside
C4_Witness ==
    /\ GeofenceApplies
    /\ ~Has(config, "compare_longitude")
    /\ Haversine(Source, Reference) = config.max_distance_km
    /\ ComparisonMode = "outside"
    /\ result.kind = "return" /\ result.value # None

----------------------------------------------------------------------------
(* Typed Python values.  Where a stage looks at the type of a value, every  *)
(* value that is not a dict or None carries its type: an int, a list,       *)
(* bytes, and two kinds of str, the text that is no JSON document and the   *)
(* text that is one (held as the document, see JsonDoc).                    *)

PyInt(n) == [pytype |-> "int", n |-> n]

PyStr(chars) == [pytype |-> "str", chars |-> chars]

PyBytes(octets) == [pytype |-> "bytes", octets |-> octets]

PyList(items) == [pytype |-> "list", items |-> items]

\* the float num / den
PyFloat(num, den) == [pytype |-> "float", num |-> num, den |-> den]

JsonText(doc) == [pytype |-> "str", json |-> doc]

TypeOf(v) ==
    IF v = None THEN "NoneType"
    ELSE IF Has(v, "pytype") THEN v.pytype
    ELSE "dict"

\* json.dumps raises TypeError on bytes, at any depth
RECURSIVE Serializable(_)
Serializable(v) ==
    CASE TypeOf(v) = "bytes" -> FALSE
      [] TypeOf(v) = "list" -> \A i \in 1..Len(v.items) : Serializable(v.items[i])
      [] TypeOf(v) = "dict" -> \A k \in DOMAIN v : Serializable(v[k])
      [] OTHER -> TRUE

\* the JSON document json.dumps writes for a serializable value
RECURSIVE JsonDoc(_)
JsonDoc(v) ==
    CASE TypeOf(v) = "NoneType" -> [json |-> "null"]
      [] TypeOf(v) = "int" -> [json |-> "number", n |-> v.n]
      [] TypeOf(v) = "float" -> [json |-> "real", x |-> v]
      [] TypeOf(v) = "str" -> [json |-> "string", s |-> v]
      [] TypeOf(v) = "list" ->
            [json |-> "array",
             items |-> [i \in 1..Len(v.items) |-> JsonDoc(v.items[i])]]
      [] TypeOf(v) = "dict" ->
            [json |-> "object", members |-> [k \in DOMAIN v |-> JsonDoc(v[k])]]

json_dumps(v) == JsonText(JsonDoc(v))

\* the value json.loads builds from a JSON document
RECURSIVE JsonValue(_)
JsonValue(doc) ==
    CASE doc.json = "null" -> None
      [] doc.json = "number" -> PyInt(doc.n)
      [] doc.json = "real" -> doc.x
      [] doc.json = "string" -> doc.s
      [] doc.json = "array" ->
            PyList([i \in 1..Len(doc.items) |-> JsonValue(doc.items[i])])
      [] doc.json = "object" ->
            [k \in DOMAIN doc.members |-> JsonValue(doc.members[k])]

\* json.loads parses a str that is a JSON document, and raises on any other
\* str, on bytes that are no JSON document and on every other type
Parses(v) == TypeOf(v) = "str" /\ Has(v, "json")

json_loads(v) == JsonValue(v.json)

----------------------------------------------------------------------------
(* EncryptFilter and DecryptFilter *)

\* the PEM files config["key"] may name: the key pair each belongs to, and
\* whether it holds the private key
KeyFiles ==
    ("pub1.pem" :> [pair |-> "k1", private |-> FALSE])
        @@ ("priv1.pem" :> [pair |-> "k1", private |-> TRUE])
        @@ ("priv2.pem" :> [pair |-> "k2", private |-> TRUE])

\* jwetoken.serialize(): a str, the JWE of message for the public key of pair
Envelope(pair, message) ==
    [pytype |-> "str", jwe |-> [kid |-> pair, sealed |-> message]]

IsEnvelope(v) == TypeOf(v) = "str" /\ Has(v, "jwe")

\* packet['id'] inside the log call's f-string, evaluated at every log level
IdLookup(p) ==
    IF TypeOf(p) # "dict" THEN "TypeError"
    ELSE IF ~Has(p, "id") THEN "KeyError"
    ELSE "ok"

\* EncryptFilter.do_action that fails open
EncryptFilter_FailOpen(p, cfg) ==
    IF ~Has(cfg, "key") THEN Return(p, <<>>)
    ELSE IF ~Has(KeyFiles, cfg.key) THEN Raise("FileNotFoundError")
    ELSE IF ~Serializable(p) THEN Raise("TypeError")
    ELSE IF IdLookup(p) # "ok" THEN Raise(IdLookup(p))
    ELSE Return(Envelope(KeyFiles[cfg.key].pair, json_dumps(p)),
                <<"Encrypted message", p.id>>)

EncryptFilter_do_action(p, cfg) ==
    IF ~Has(cfg, "key") THEN Return(None, <<>>)
    ELSE IF ~Has(KeyFiles, cfg.key) THEN Raise("FileNotFoundError")
    ELSE IF ~Serializable(p) THEN Raise("TypeError")
    ELSE IF IdLookup(p) # "ok" THEN Raise(IdLookup(p))
    ELSE Return(Envelope(KeyFiles[cfg.key].pair, json_dumps(p)),
                <<"Encrypted message", p.id>>)

\* lines 636-646: open the envelope with the key of the configured file
Open(p, key) ==
    IF ~IsEnvelope(p) THEN Raise("InvalidJWEData")
    ELSE IF ~(key.private /\ key.pair = p.jwe.kid) THEN Raise("InvalidJWEData")
    ELSE IF ~Parses(p.jwe.sealed) THEN Raise("JSONDecodeError")
    ELSE LET opened == json_loads(p.jwe.sealed)
         IN  IF IdLookup(opened) # "ok" THEN Raise(IdLookup(opened))
             ELSE Return(opened, <<"Decrypted message", opened.id>>)

DecryptFilter_do_action(p, cfg) ==
    IF ~Has(cfg, "key") THEN Return(p, <<>>)
    ELSE IF TypeOf(p) # "str" THEN Return(p, <<"Packet is not string">>)
    ELSE IF ~Has(KeyFiles, cfg.key) THEN Raise("FileNotFoundError")
    ELSE Open(p, KeyFiles[cfg.key])

----------------------------------------------------------------------------
(* the inputs of the crypto specification *)

CryptoPackets ==
    {i @@ f @@ d :
        i \in Opt("id", {PyInt(7)}),
        f \in Opt("fromId", {PyStr(<<"!", "a">>)}),
        d \in Opt("decoded", {[text |-> PyStr(<<"h", "i">>)],
                              [payload |-> PyBytes(<<255>>)]})}

\* what else a crypto stage may be handed: no packet, text, JSON text, and
\* envelopes made elsewhere
CryptoTexts ==
    {None, PyStr(<<"h", "i">>), json_dumps([id |-> PyInt(7)])}
        \cup {Envelope(pair, message) :
                pair \in {"k1", "k2"},
                message \in {json_dumps([id |-> PyInt(7)]),
                             json_dumps([decoded |-> [text |-> PyStr(<<"h", "i">>)]]),
                             json_dumps(PyInt(7)),
                             PyStr(<<"h", "i">>)}}

KeyConfigs == Opt("key", {"pub1.pem", "priv1.pem", "priv2.pem", "missing.pem"})

InitCrypto ==
    /\ packet \in CryptoPackets \cup CryptoTexts
    /\ config \in [encrypt_filter : KeyConfigs, decrypt_filter : KeyConfigs]
    /\ devices = EmptyDict
    /\ applied = <<>>
    /\ result = Pending
    /\ AprsIdle
    /\ RestIdle

\* one call of EncryptFilter.do_action, on the pipeline's input
EncryptFilterApply ==
    /\ applied = <<>>
    /\ result' = EncryptFilter_do_action(packet, config.encrypt_filter)
    /\ applied' = Append(applied, Call("encrypt_filter", packet))
    /\ UNCHANGED <<packet, config, devices, aprsVars, restVars>>

\* one call of DecryptFilter.do_action, on the pipeline's input or on what
\* the encrypt stage before it returned (a dropped packet goes no further)
DecryptFilterApply ==
    /\ \/ applied = <<>>
       \/ /\ Len(applied) = 1 /\ applied[1].plugin = "encrypt_filter"
          /\ result.kind = "return" /\ result.value # None
    /\ LET input == IF applied = <<>> THEN packet ELSE result.value
       IN  /\ result' = DecryptFilter_do_action(input, config.decrypt_filter)
           /\ applied' = Append(applied, Call("decrypt_filter", input))
    /\ UNCHANGED <<packet, config, devices, aprsVars, restVars>>

NextCrypto == EncryptFilterApply \/ DecryptFilterApply

SpecCrypto == InitCrypto /\ [][NextCrypto]_vars

----------------------------------------------------------------------------
(* Claims about the crypto stages, checked under SpecCrypto *)

LastCall == applied[Len(applied)]

\* C5: with no key configured, Encrypt returns None (dropped) for every
\* input and Decrypt returns its input unchanged for every input; Decrypt
\* also returns its input unchanged whenever the input is not serialized
\* text (not a str), key or no key.
C5_KeyGating ==
    applied # <<>> =>
        /\ ( /\ LastCall.plugin = "encrypt_filter"
             /\ ~Has(config.encrypt_filter, "key") ) => Dropped(result)
        /\ ( /\ LastCall.plugin = "decrypt_filter"
             /\ \/ ~Has(config.decrypt_filter, "key")
                \/ TypeOf(LastCall.input) # "str" ) =>
              result.kind = "return" /\ result.value = LastCall.input

\* Decrypt, with a key configured, has returned a mapping unchanged
C5_Witness ==
    /\ applied # <<>>
    /\ LastCall.plugin = "decrypt_filter"
    /\ Has(config.decrypt_filter, "key")
    /\ TypeOf(LastCall.input) = "dict"
    /\ result.kind = "return" /\ result.value = LastCall.input

\* the encrypt stage reads a key file of the pair whose private key the
\* decrypt stage reads
ValidKeyPair ==
    /\ Has(config.encrypt_filter, "key") /\ Has(KeyFiles, config.encrypt_filter.key)
    /\ Has(config.decrypt_filter, "key") /\ Has(KeyFiles, config.decrypt_filter.key)
    /\ KeyFiles[config.decrypt_filter.key].private
    /\ KeyFiles[config.decrypt_filter.key].pair = KeyFiles[config.encrypt_filter.key].pair

\* a packet after normalization: a mapping of text-only values
CanonicalPacket(p) == TypeOf(p) = "dict" /\ Serializable(p)

\* C6: for any packet p and any valid key pair, Encrypt returns a serialized
\* envelope (a str, not a mapping), and Decrypt with the matching private
\* key, applied to it, returns a packet equal to p.
C6_RoundTrip ==
    ( /\ ValidKeyPair /\ CanonicalPacket(packet)
      /\ applied # <<>> /\ applied[1].plugin = "encrypt_filter" ) =>
        /\ Len(applied) = 1 => result.kind = "return" /\ IsEnvelope(result.value)
        /\ Len(applied) = 2 => result.kind = "return" /\ result.value = packet

\* The same statement for the packets that carry an id: this one holds.
C6_WithId ==
    (CanonicalPacket(packet) /\ ~Has(packet, "id")) \/ C6_RoundTrip

\* a packet with an id has made the round trip
C6_WithId_Witness ==
    /\ ValidKeyPair /\ CanonicalPacket(packet) /\ Len(applied) = 2
    /\ applied[1].plugin = "encrypt_filter"
    /\ result.kind = "return" /\ result.value = packet

----------------------------------------------------------------------------
(* PacketFilter *)

\* lines 38-48: a dict loses its raw key and so do the dicts that are its
\* values, and theirs; any other value, a list included, is returned as is
RECURSIVE strip_raw(_)
strip_raw(data) ==
    IF TypeOf(data) # "dict" THEN data
    ELSE [k \in DOMAIN data \ {"raw"} |-> strip_raw(data[k])]

\* lines 50-60
normalize(dict_obj) ==
    IF TypeOf(dict_obj) = "dict" THEN strip_raw(dict_obj)
    ELSE IF Parses(dict_obj) THEN strip_raw(json_loads(dict_obj))
    ELSE strip_raw([decoded |-> [text |-> dict_obj]])

\* base64.b64encode(payload).decode("utf-8")
b64encode(payload) == [pytype |-> "str", b64 |-> payload.octets]

\* the test  "key" in x : of a dict its keys; of the texts and lists of this
\* model, none of which holds the key, False; of None and an int, TypeError
Contains(x, key) ==
    CASE TypeOf(x) = "dict" -> IF Has(x, key) THEN "True" ELSE "False"
      [] TypeOf(x) \in {"str", "list", "bytes"} -> "False"
      [] OTHER -> "TypeError"

\* lines 66-71: a bytes payload becomes its base64 text
EncodePayload(p) ==
    IF Contains(p, "decoded") = "TypeError" THEN Raise("TypeError")
    ELSE IF Contains(p, "decoded") = "False" THEN Return(p, <<>>)
    ELSE IF Contains(p.decoded, "payload") = "TypeError" THEN Raise("TypeError")
    ELSE IF Contains(p.decoded, "payload") = "False" THEN Return(p, <<>>)
    ELSE IF TypeOf(p.decoded.payload) = "bytes"
         THEN Return([p EXCEPT !.decoded.payload = b64encode(@)], <<>>)
    ELSE Return(p, <<>>)

PacketFilter_do_action(p) == EncodePayload(normalize(p))

----------------------------------------------------------------------------
(* the inputs of the PacketFilter specification *)

MaxDepth == 2

Leaves == {PyStr(<<"h", "i">>), PyStr(<<>>)}

\* the key under which a dict holds its nested value, by depth from the top
NestKey(level) ==
    IF level = 1 THEN "decoded" ELSE IF level = 2 THEN "telemetry" ELSE "nested"

\* the dicts nested at most depth deep from the given level: each with or
\* without a raw key, each holding nothing, a leaf, a dict, or a list of one dict
RECURSIVE Mappings(_, _)
Mappings(level, depth) ==
    IF depth = 0 THEN Opt("raw", {PyInt(1)})
    ELSE LET inner == Mappings(level + 1, depth - 1)
         IN  {r @@ c : r \in Opt("raw", {PyInt(1)}),
                       c \in Opt(NestKey(level),
                                 Leaves \cup inner \cup {PyList(<<d>>) : d \in inner})}

PayloadPackets ==
    {[id |-> PyInt(7), decoded |-> [payload |-> PyBytes(<<255>>), raw |-> PyInt(1)]],
     [id |-> PyInt(7), decoded |-> [payload |-> PyStr(<<"h", "i">>)]]}

\* the values a serialized text may hold
Serialized ==
    Mappings(1, MaxDepth)
        \cup {None, PyInt(5), PyStr(<<"h", "i">>),
              PyList(<<[raw |-> PyInt(1)]>>),
              json_dumps([id |-> PyInt(7)]),
              json_dumps(PyStr(<<"h", "i">>))}

\* already structured, serialized, and raw inputs
NormalizerInputs ==
    Mappings(1, MaxDepth)
        \cup PayloadPackets
        \cup {json_dumps(v) : v \in Serialized}
        \cup {None, PyInt(5), PyStr(<<"h", "i">>), PyStr(<<>>), PyBytes(<<255>>)}

InitNormalizer ==
    /\ packet \in NormalizerInputs
    /\ config = EmptyDict
    /\ devices = EmptyDict
    /\ applied = <<>>
    /\ result = Pending
    /\ AprsIdle
    /\ RestIdle

\* one call of PacketFilter.do_action, on the pipeline's input
PacketFilterApply ==
    /\ applied = <<>>
    /\ result' = PacketFilter_do_action(packet)
    /\ applied' = Append(applied, Call("packet_filter", packet))
    /\ UNCHANGED <<packet, config, devices, aprsVars, restVars>>

\* one call of PacketFilter.normalize, on the input or on what the call of
\* normalize before it returned
NormalizeApply ==
    /\ \/ applied = <<>>
       \/ Len(applied) = 1 /\ applied[1].plugin = "packet_filter.normalize"
    /\ LET input == IF applied = <<>> THEN packet ELSE result.value
       IN  /\ result' = Return(normalize(input), <<>>)
           /\ applied' = Append(applied, Call("packet_filter.normalize", input))
    /\ UNCHANGED <<packet, config, devices, aprsVars, restVars>>

NextNormalizer == PacketFilterApply \/ NormalizeApply

SpecNormalizer == InitNormalizer /\ [][NextNormalizer]_vars

----------------------------------------------------------------------------
(* Claims about PacketFilter, checked under SpecNormalizer *)

\* C7: for every input, the normalizer returns a structured mapping: it
\* never raises, never drops, and never returns text, bytes, a scalar or a
\* sequence.
C7_OutputIsMapping ==
    applied # <<>> => result.kind = "return" /\ TypeOf(result.value) = "dict"

\* The same statement for the inputs that are mappings, serialized mappings
\* or unparseable values: this one holds.
C7_MappingInputs ==
    \/ Parses(packet) /\ TypeOf(json_loads(packet)) # "dict"
    \/ C7_OutputIsMapping

\* a key named raw somewhere in v: in v, in the values of a mapping, in the
\* items of a list
RECURSIVE HasRaw(_)
HasRaw(v) ==
    CASE TypeOf(v) = "dict" -> Has(v, "raw") \/ \E k \in DOMAIN v : HasRaw(v[k])
      [] TypeOf(v) = "list" -> \E i \in 1..Len(v.items) : HasRaw(v.items[i])
      [] OTHER -> FALSE

\* C8: after normalization no key named raw remains anywhere in the result,
\* at any nesting depth, mappings nested inside other values included.
C8_NoRawAnywhere ==
    (applied # <<>> /\ result.kind = "return") => ~HasRaw(result.value)

\* a key named raw in v or in a mapping reached from v through mappings only
RECURSIVE HasRawInMappings(_)
HasRawInMappings(v) ==
    /\ TypeOf(v) = "dict"
    /\ Has(v, "raw") \/ \E k \in DOMAIN v : HasRawInMappings(v[k])

\* The same statement for the mappings nested in mappings: this one holds.
C8_MappingsOnly ==
    (applied # <<>> /\ result.kind = "return") => ~HasRawInMappings(result.value)

\* C9: normalize(normalize(p)) = normalize(p) for every input p.
C9_Idempotent ==
    ( /\ Len(applied) = 2
      /\ applied[1].plugin = "packet_filter.normalize"
      /\ applied[2].plugin = "packet_filter.normalize" ) =>
        result.value = applied[2].input

\* The same statement for the inputs whose first normalization is a
\* mapping: this one holds.
C9_OfMappings ==
    (Len(applied) = 2 /\ TypeOf(applied[2].input) # "dict") \/ C9_Idempotent

----------------------------------------------------------------------------
(* AprsPlugin.  The texts it builds are sequences of character codes; the   *)
(* long name of a node is held as what the device name pattern of lines     *)
(* 540-549 makes of it: its callsign, symbol and comment groups if the name *)
(* matches, its text if it does not.                                        *)

TelemetryModulus == 1000

\* lines 566-569: two characters, chr(value // 91 + 33) and chr(value % 91 + 33)
base91_encode(value) == <<(value \div 91) + 33, (value % 91) + 33>>

\* the value the two characters stand for
base91_decode(d1, d2) == (d1 - 33) * 91 + (d2 - 33)

\* int(two_hours_ago.timestamp()), datetime.now() being second 10000
two_hours_ago_ts == 10000 - 2 * 3600

\* lines 571-584: [online_cnt, nodes_cnt] of the node directory
get_igate_telemetry(iface) ==
    LET nodes == iface.nodesByNum
        lastHeard(n) == IF Has(nodes[n], "lastHeard") THEN nodes[n].lastHeard ELSE 0
    IN  << Cardinality({n \in DOMAIN nodes : lastHeard(n) > two_hours_ago_ts}),
           Cardinality(DOMAIN nodes) >>

\* encode_igate_telemetry without the wrap
encode_igate_telemetry_NoWrap(values, seq_now) ==
    LET seq == seq_now + 1
    IN  [telemetry_seq |-> seq,
         text |-> <<124>> \o base91_encode(seq) \o base91_encode(values[1])
                      \o base91_encode(values[2]) \o <<124>>]

\* lines 559-564: the new value of telemetry_seq and the text "|...|"
encode_igate_telemetry(values, seq_now) ==
    LET seq == (seq_now + 1) % TelemetryModulus
    IN  [telemetry_seq |-> seq,
         text |-> <<124>> \o base91_encode(seq) \o base91_encode(values[1])
                      \o base91_encode(values[2]) \o <<124>>]

\* lines 474-483: a KeyError is answered False
is_position_packet(p) ==
    /\ Has(p, "decoded") /\ Has(p.decoded, "portnum")
    /\ p.decoded.portnum = "POSITION_APP"
    /\ Has(p.decoded, "position")
    /\ Has(p.decoded.position, "latitude")
    /\ p.decoded.position.latitude # None
    /\ Has(p.decoded.position, "longitude")
    /\ p.decoded.position.longitude # None

\* lines 493-498: the telemetry-schema announcement
MetaBeacon(cfg) ==
    [packet |-> "APRSPacket", fromcall |-> cfg.callsign, tocall |-> "APLMB0",
     body |-> <<":", cfg.callsign, ":PARM.OnlineCnt,NodesCnt">>]

\* lines 501-509: the IGate position report
IGateBeacon(cfg, position, telemetry_base91) ==
    [packet |-> "PositionReport", fromcall |-> cfg.callsign, tocall |-> "APLMB0",
     symbol_table |-> "L", symbol |-> "&",
     latitude |-> position.latitude, longitude |-> position.longitude,
     comment |-> cfg.igate.comment \o telemetry_base91]

\* report_self_position announcing whenever the counter is not above zero
report_self_position_AnnounceAtZero(position, cfg, iface, seq_now, up) ==
    LET meta == IF seq_now <= 0 THEN <<MetaBeacon(cfg)>> ELSE <<>>
        telemetry == encode_igate_telemetry(get_igate_telemetry(iface), seq_now)
    IN  IF seq_now <= 0 /\ ~up
        THEN [raised |-> "ConnectionError", sent |-> <<>>,
              telemetry_seq |-> seq_now, encoded |-> <<>>]
        ELSE IF ~Has(cfg, "igate")
        THEN [raised |-> "KeyError", sent |-> meta,
              telemetry_seq |-> telemetry.telemetry_seq, encoded |-> <<telemetry.text>>]
        ELSE IF ~up
        THEN [raised |-> "ConnectionError", sent |-> meta,
              telemetry_seq |-> telemetry.telemetry_seq, encoded |-> <<telemetry.text>>]
        ELSE [raised |-> "",
              sent |-> Append(meta, IGateBeacon(cfg, position, telemetry.text)),
              telemetry_seq |-> telemetry.telemetry_seq, encoded |-> <<telemetry.text>>]

\* lines 485-510: what is sent, the new telemetry_seq, the telemetry texts
\* encoded, and the exception raised if any ("" if none).  up tells whether
\* the session delivers: aprs.sendall raises ConnectionError when it is down.
report_self_position(position, cfg, iface, seq_now, up) ==
    LET meta == IF seq_now = -1 THEN <<MetaBeacon(cfg)>> ELSE <<>>
        telemetry == encode_igate_telemetry(get_igate_telemetry(iface), seq_now)
    IN  IF seq_now = -1 /\ ~up
        THEN [raised |-> "ConnectionError", sent |-> <<>>,
              telemetry_seq |-> seq_now, encoded |-> <<>>]
        ELSE IF ~Has(cfg, "igate")
        THEN [raised |-> "KeyError", sent |-> meta,
              telemetry_seq |-> telemetry.telemetry_seq, encoded |-> <<telemetry.text>>]
        ELSE IF ~up
        THEN [raised |-> "ConnectionError", sent |-> meta,
              telemetry_seq |-> telemetry.telemetry_seq, encoded |-> <<telemetry.text>>]
        ELSE [raised |-> "",
              sent |-> Append(meta, IGateBeacon(cfg, position, telemetry.text)),
              telemetry_seq |-> telemetry.telemetry_seq, encoded |-> <<telemetry.text>>]

\* lines 529-557: the groups of the sender's long name, or <<>> for the
\* ValueError raised when the name is unknown or does not match
parse_aprs_data(p, iface) ==
    LET nodes == iface.nodesByNum
    IN  IF ~( /\ Has(nodes, p.from)
              /\ Has(nodes[p.from], "user")
              /\ Has(nodes[p.from].user, "longName") ) THEN <<>>
        ELSE IF ~Has(nodes[p.from].user.longName, "callsign") THEN <<>>
        ELSE <<nodes[p.from].user.longName>>

\* lines 512-527: the position report of another node
NodeBeacon(cfg, aprs_data, position) ==
    [packet |-> "PositionReport", fromcall |-> aprs_data.callsign, tocall |-> "APLMB0",
     path |-> <<"WIDE1-1", "qAR", cfg.callsign>>,
     symbol_table |-> aprs_data.symbol[1], symbol |-> aprs_data.symbol[2],
     latitude |-> position.latitude, longitude |-> position.longitude,
     comment |-> aprs_data.comment]

\* lines 456-472: the outcome, what was sent, the new telemetry_seq and the
\* telemetry texts encoded
AprsPlugin_do_action(p, cfg, iface, seq_now, up) ==
    IF iface = None
    THEN [result |-> Return(p, <<"Must be connected to a device directly">>),
          sent |-> <<>>, telemetry_seq |-> seq_now, encoded |-> <<>>]
    ELSE IF ~is_position_packet(p)
    THEN [result |-> Return(p, <<>>), sent |-> <<>>, telemetry_seq |-> seq_now,
          encoded |-> <<>>]
    ELSE IF ~Has(p, "from")
    THEN [result |-> Raise("KeyError"), sent |-> <<>>, telemetry_seq |-> seq_now,
          encoded |-> <<>>]
    ELSE IF p.from = iface.num
    THEN LET self == report_self_position(p.decoded.position, cfg, iface, seq_now, up)
         IN  [result |-> IF self.raised = "" THEN Return(p, <<"Sending IGate beacon...">>)
                         ELSE Raise(self.raised),
              sent |-> self.sent, telemetry_seq |-> self.telemetry_seq,
              encoded |-> self.encoded]
    ELSE LET aprs_data == parse_aprs_data(p, iface)
         IN  IF aprs_data = <<>>
             THEN [result |-> Return(p, <<"ValueError">>), sent |-> <<>>,
                   telemetry_seq |-> seq_now, encoded |-> <<>>]
             ELSE IF ~up
             THEN [result |-> Raise("ConnectionError"), sent |-> <<>>,
                   telemetry_seq |-> seq_now, encoded |-> <<>>]
             ELSE [result |-> Return(p, <<"Sending beacon...">>),
                   sent |-> <<NodeBeacon(cfg, aprs_data[1], p.decoded.position)>>,
                   telemetry_seq |-> seq_now, encoded |-> <<>>]

----------------------------------------------------------------------------
(* the APRS specification: any sequence of calls, one after the other *)

\* node 1 is the connected radio
NodeDirectory ==
    (1 :> [num |-> 1, lastHeard |-> 9000,
           user |-> [longName |-> [text |-> "Gateway"]]])
        @@ (2 :> [num |-> 2, lastHeard |-> 9500,
                  user |-> [longName |-> [callsign |-> "N0CALL-7",
                                          symbol |-> <<"/", ">">>,
                                          comment |-> <<>>]]])
        @@ (3 :> [num |-> 3, lastHeard |-> 100,
                  user |-> [longName |-> [text |-> "Bob"]]])
        @@ (4 :> [num |-> 4])

Interfaces ==
    {None, [num |-> 1, nodesByNum |-> NodeDirectory],
     [num |-> 1, nodesByNum |-> (1 :> [num |-> 1])]}

AprsConfigs ==
    {[callsign |-> "GATE-10", aprs_is |-> [server |-> "rotate.aprs2.net", port |-> 14580],
      igate |-> [comment |-> <<77>>]],
     [callsign |-> "GATE-10", aprs_is |-> [server |-> "rotate.aprs2.net", port |-> 14580]]}

PositionPacket(from) ==
    [from |-> from,
     decoded |-> [portnum |-> "POSITION_APP",
                  position |-> [latitude |-> PyInt(0), longitude |-> PyInt(1)]]]

AprsPackets ==
    {PositionPacket(from) : from \in 1..5}
        \cup { [from |-> 1, decoded |-> [portnum |-> "TEXT_MESSAGE_APP",
                                         text |-> PyStr(<<"h", "i">>)]],
               [from |-> 1, decoded |-> [portnum |-> "POSITION_APP",
                                         position |-> [latitude |-> None,
                                                       longitude |-> PyInt(1)]]],
               [decoded |-> [portnum |-> "POSITION_APP",
                             position |-> [latitude |-> PyInt(0),
                                           longitude |-> PyInt(1)]]] }

InitAprs ==
    /\ packet = None
    /\ config \in AprsConfigs
    /\ devices = EmptyDict
    /\ applied = <<>>
    /\ result = Pending
    /\ interface \in Interfaces
    /\ telemetry_seq = -1
    /\ sent = <<>>
    /\ seq_before = -1
    /\ emitted = <<>>
    /\ announced = 0
    /\ RestIdle

\* an IGate beacon: its comment ends with the telemetry text
IsIGateBeacon(b) ==
    b.packet = "PositionReport" /\ b.symbol_table = "L" /\ b.symbol = "&"

\* the sequence number in the telemetry text "|ssoonn|" that ends the comment
TelemetrySeqOf(b) ==
    base91_decode(b.comment[Len(b.comment) - 6], b.comment[Len(b.comment) - 5])

\* the sequence numbers in the telemetry texts "|ssoonn|", in order
SeqsEncoded(texts) ==
    [i \in 1..Len(texts) |-> base91_decode(texts[i][2], texts[i][3])]

\* the last two of a sequence
LastTwo(q) == IF Len(q) <= 2 THEN q ELSE SubSeq(q, Len(q) - 1, Len(q))

\* one call of AprsPlugin.do_action, on any packet, the session up or down
AprsPluginApply ==
    \E p \in AprsPackets, up \in BOOLEAN :
        LET out == AprsPlugin_do_action(p, config, interface, telemetry_seq, up)
        IN  /\ packet' = p
            /\ applied' = <<Call("aprs_plugin", p)>>
            /\ result' = out.result
            /\ telemetry_seq' = out.telemetry_seq
            /\ sent' = out.sent
            /\ seq_before' = telemetry_seq
            /\ emitted' = LastTwo(emitted \o SeqsEncoded(out.encoded))
            /\ announced' = announced
                  + Cardinality({i \in 1..Len(out.sent) : out.sent[i].packet = "APRSPacket"})
            /\ UNCHANGED <<config, devices, interface, restVars>>

NextAprs == AprsPluginApply

SpecAprs == InitAprs /\ [][NextAprs]_vars

----------------------------------------------------------------------------
(* Claims about the telemetry sequence counter, checked under SpecAprs *)

\* the last call was a self-beacon: a position packet of the connected radio
SelfBeacon ==
    /\ applied # <<>>
    /\ interface # None
    /\ Has(packet, "from") /\ packet.from = interface.num
    /\ Has(packet, "decoded") /\ Has(packet.decoded, "position")
    /\ packet.decoded.portnum = "POSITION_APP"
    /\ packet.decoded.position.latitude # None
    /\ packet.decoded.position.longitude # None

\* C10: over any sequence of calls, every sequence number the encoder emits
\* lies in 0..999 and equals the one emitted before it plus one, modulo 1000
\* (so 0 follows 999); the first one is 0; a beacon that is sent bears the
\* number last emitted; and only a self-beacon changes the counter.
C10_SequenceCounter ==
    /\ \A i \in 1..Len(emitted) : emitted[i] \in 0..999
    /\ Len(emitted) = 1 => emitted[1] = 0
    /\ Len(emitted) = 2 => emitted[2] = (emitted[1] + 1) % 1000
    /\ (Len(emitted) = 2 /\ emitted[1] = 999) => emitted[2] = 0
    /\ \A i \in 1..Len(sent) :
          IsIGateBeacon(sent[i]) =>
              emitted # <<>> /\ TelemetrySeqOf(sent[i]) = emitted[Len(emitted)]
    /\ telemetry_seq # seq_before => SelfBeacon
    /\ telemetry_seq \in -1..999

\* the beacon sent after the one numbered 999 is numbered 0
C10_Witness ==
    /\ SelfBeacon
    /\ emitted = <<999, 0>>
    /\ seq_before = 999 /\ telemetry_seq = 0
    /\ sent # <<>> /\ IsIGateBeacon(sent[Len(sent)])
    /\ TelemetrySeqOf(sent[Len(sent)]) = 0

\* a telemetry-schema announcement
IsAnnouncement(b) == b.packet = "APRSPacket"

\* C11: over any sequence of calls, the telemetry-schema announcement is sent
\* at most once, also past the wrap of the counter; a telemetry-bearing
\* position beacon is sent only when the announcement has been sent, and
\* after it if both are sent by the same call; and once a self-beacon call
\* has returned, the announcement has been sent exactly once.
C11_AnnouncedOnce ==
    /\ announced \in {0, 1}
    /\ \A i \in 1..Len(sent) :
          IsIGateBeacon(sent[i]) =>
              /\ announced = 1
              /\ \A j \in 1..Len(sent) : IsAnnouncement(sent[j]) => j < i
    /\ (SelfBeacon /\ result.kind = "return") => announced = 1
    /\ emitted # <<>> => announced = 1

\* past the wrap: the beacon numbered 0 for the second time goes out alone
C11_Witness ==
    /\ SelfBeacon
    /\ emitted = <<999, 0>>
    /\ announced = 1
    /\ Len(sent) = 1 /\ IsIGateBeacon(sent[1])

----------------------------------------------------------------------------
(* The broker egress adapters: MQTTPlugin and OwntracksPlugin.  A broker    *)
(* connection is [connected, outbox]: is_connected() and the last message   *)
(* handed to publish.  A text with macros is a sequence of pieces, a macro  *)
(* such as "{MSG}" being one piece.                                         *)

\* str.replace(needle, value) on the pieces of a text
RECURSIVE Replace(_, _, _)
Replace(pieces, needle, value) ==
    IF pieces = <<>> THEN <<>>
    ELSE (IF Head(pieces) = needle THEN value ELSE <<Head(pieces)>>)
            \o Replace(Tail(pieces), needle, value)

\* mqtt_server.publish(topic, message)
Publish(servers, name, topic, message) ==
    [servers EXCEPT ![name].outbox = <<[topic |-> topic, payload |-> message]>>]

\* the first of the required options that the config lacks, or <<>>
MissingOption(required_options, cfg) ==
    IF \A i \in 1..Len(required_options) : Has(cfg, required_options[i]) THEN <<>>
    ELSE LET i == CHOOSE i \in 1..Len(required_options) :
                    /\ ~Has(cfg, required_options[i])
                    /\ \A j \in 1..(i - 1) : Has(cfg, required_options[j])
         IN  <<required_options[i]>>

\* lines 304-334: the outcome and the broker connections after the call
MQTTPlugin_do_action(p, cfg, servers) ==
    LET missing == MissingOption(<<"name", "topic">>, cfg)
    IN  IF missing # <<>>
        THEN [result |-> Return(p, <<"Missing config", missing[1]>>),
              mqtt_servers |-> servers]
        ELSE IF ~Has(servers, cfg.name)
        THEN [result |-> Return(p, <<"No server established", cfg.name>>),
              mqtt_servers |-> servers]
        ELSE IF ~servers[cfg.name].connected
        THEN [result |-> Return(None, <<"Not sent, not connected">>),
              mqtt_servers |-> servers]
        ELSE IF ~Serializable(p)
        THEN [result |-> Raise("TypeError"), mqtt_servers |-> servers]
        ELSE IF Has(cfg, "message")
        THEN IF ~(Has(p, "decoded") /\ Has(p.decoded, "text"))
             THEN [result |-> Raise("KeyError"), mqtt_servers |-> servers]
             ELSE IF TypeOf(p.decoded.text) # "str"
             THEN [result |-> Raise("TypeError"), mqtt_servers |-> servers]
             ELSE [result |-> Return(p, <<"Message sent">>),
                   mqtt_servers |->
                       Publish(servers, cfg.name, cfg.topic,
                               PyStr(Replace(cfg.message, "{MSG}", p.decoded.text.chars)))]
        ELSE [result |-> Return(p, <<"Message sent">>),
              mqtt_servers |-> Publish(servers, cfg.name, cfg.topic, json_dumps(p))]

\* str(packet["from"]) for the node numbers of the model
Str(v) == IF v.n = 1 THEN "1" ELSE IF v.n = 2 THEN "2" ELSE "3"

\* lines 366-371: a packet straight from the radio
FromRadio(p) ==
    /\ Has(p, "decoded")
    /\ Has(p.decoded, "position")
    /\ Has(p.decoded.position, "latitude")
    /\ p.decoded.position.latitude # PyInt(0)

\* lines 380-386: a packet that came through a broker
FromBroker(p) ==
    /\ Has(p, "type")
    /\ p.type = PyStr(<<"position">>)
    /\ Has(p, "payload")
    /\ Has(p.payload, "latitude_i")
    /\ p.payload.latitude_i # PyInt(0)

\* lines 362-395: the location message; the packets of the model carry
\* every field these lines read
OwntracksMessage(p, tid_table) ==
    LET base == [_type |-> PyStr(<<"location">>), bs |-> PyInt(0),
                 tid |-> PyStr(<<tid_table[Str(p.from)][2]>>)]
    IN  IF FromRadio(p)
        THEN base @@ [lat |-> p.decoded.position.latitude,
                      lon |-> p.decoded.position.longitude,
                      tst |-> p.decoded.position.time,
                      created_at |-> p.rxTime]
                  @@ (IF Has(p.decoded.position, "altitude")
                      THEN [alt |-> p.decoded.position.altitude] ELSE EmptyDict)
        ELSE base @@ [lat |-> PyFloat(p.payload.latitude_i.n, 10000000),
                      lon |-> PyFloat(p.payload.longitude_i.n, 10000000),
                      tst |-> p.timestamp,
                      created_at |-> IF Has(p.payload, "time") THEN p.payload.time
                                     ELSE p.timestamp]
                  @@ (IF Has(p.payload, "altitude")
                      THEN [alt |-> p.payload.altitude] ELSE EmptyDict)

\* lines 343-417: the outcome and the broker connections after the call
OwntracksPlugin_do_action(p, cfg, servers) ==
    LET missing == MissingOption(<<"tid_table", "server_name">>, cfg)
    IN  IF missing # <<>>
        THEN [result |-> Return(p, <<"Missing config", missing[1]>>),
              mqtt_servers |-> servers]
        ELSE IF ~Has(p, "from")
        THEN [result |-> Return(p, <<"Missing from: field">>), mqtt_servers |-> servers]
        ELSE IF ~Has(cfg.tid_table, Str(p.from))
        THEN [result |-> Return(p, <<"Sender not in tid_table">>),
              mqtt_servers |-> servers]
        ELSE IF ~(FromRadio(p) \/ FromBroker(p))
        THEN [result |-> Return(p, <<"Not a location packet">>), mqtt_servers |-> servers]
        ELSE IF ~Has(servers, cfg.server_name)
        THEN [result |-> Return(p, <<"No server established", cfg.server_name>>),
              mqtt_servers |-> servers]
        ELSE IF ~servers[cfg.server_name].connected
        THEN [result |-> Return(None, <<"Not sent, not connected">>),
              mqtt_servers |-> servers]
        ELSE [result |-> Return(p, <<"Message sent">>),
              mqtt_servers |->
                  Publish(servers, cfg.server_name,
                          <<"owntracks/user/", cfg.tid_table[Str(p.from)][1]>>,
                          json_dumps(OwntracksMessage(p, cfg.tid_table)))]

----------------------------------------------------------------------------
(* the broker egress specification: a pipeline of the two adapters *)

\* "local" is the one broker the bridge connects to
BrokerNames == {"local", "remote"}

Brokers ==
    {EmptyDict} \cup {"local" :> [connected |-> c, outbox |-> <<>>] : c \in BOOLEAN}

MqttConfigs ==
    {name @@ topic @@ message :
        name \in Opt("name", BrokerNames),
        topic \in Opt("topic", {"mesh/out"}),
        message \in Opt("message", {<<"got ", "{MSG}">>})}

OwntracksConfigs ==
    {tid_table @@ server_name :
        tid_table \in Opt("tid_table", {"1" :> <<"gateway", "gw">>}),
        server_name \in Opt("server_name", BrokerNames)}

RadioPosition(altitude) ==
    [latitude |-> PyInt(1), longitude |-> PyInt(2), time |-> PyInt(7)] @@ altitude

EgressPackets ==
    {[from |-> PyInt(from), rxTime |-> PyInt(9), decoded |-> [position |-> RadioPosition(alt)]] :
        from \in 1..2, alt \in Opt("altitude", {PyInt(3)})}
      \cup {[from |-> PyInt(1), type |-> PyStr(<<"position">>), timestamp |-> PyInt(8),
             payload |-> [latitude_i |-> PyInt(1), longitude_i |-> PyInt(2)] @@ time] :
                time \in Opt("time", {PyInt(7)})}
      \cup {[from |-> PyInt(1), decoded |-> [text |-> PyStr(<<"h", "i">>)]],
            [decoded |-> [text |-> PyStr(<<"h", "i">>)]],
            [from |-> PyInt(1), rxTime |-> PyInt(9),
             decoded |-> [position |-> [latitude |-> PyInt(0), longitude |-> PyInt(2),
                                        time |-> PyInt(7)]]]}

InitEgress ==
    /\ packet \in EgressPackets
    /\ config \in [mqtt_plugin : MqttConfigs, owntracks_plugin : OwntracksConfigs]
    /\ devices = EmptyDict
    /\ applied = <<>>
    /\ result = Pending
    /\ AprsIdle
    /\ mqtt_servers \in Brokers
    /\ configured = config
    /\ threads = EmptyDict
    /\ published = <<>>
    /\ delivered = <<>>

\* one call of MQTTPlugin.do_action, on the pipeline's input
MQTTPluginApply ==
    /\ applied = <<>>
    /\ LET out == MQTTPlugin_do_action(packet, config.mqtt_plugin, mqtt_servers)
       IN  /\ result' = out.result
           /\ mqtt_servers' = out.mqtt_servers
    /\ applied' = Append(applied, Call("mqtt_plugin", packet))
    /\ UNCHANGED <<packet, config, devices, aprsVars, configured, threads, published, delivered>>

\* one call of OwntracksPlugin.do_action, on the pipeline's input or on what
\* the stage before it returned (a dropped packet goes no further)
OwntracksPluginApply ==
    /\ \/ applied = <<>>
       \/ /\ Len(applied) = 1 /\ applied[1].plugin = "mqtt_plugin"
          /\ result.kind = "return" /\ result.value # None
    /\ LET input == IF applied = <<>> THEN packet ELSE result.value
           out == OwntracksPlugin_do_action(input, config.owntracks_plugin, mqtt_servers)
       IN  /\ result' = out.result
           /\ mqtt_servers' = out.mqtt_servers
           /\ applied' = Append(applied, Call("owntracks_plugin", input))
    /\ UNCHANGED <<packet, config, devices, aprsVars, configured, threads, published, delivered>>

NextEgress == MQTTPluginApply \/ OwntracksPluginApply

SpecEgress == InitEgress /\ [][NextEgress]_vars

----------------------------------------------------------------------------
(* Claims about the broker egress adapters, checked under SpecEgress *)

\* the config of the adapter called last, and the key that names its broker
AdapterConfig == config[applied[Len(applied)].plugin]

BrokerKey == IF applied[Len(applied)].plugin = "mqtt_plugin" THEN "name" ELSE "server_name"

RequiredKeys ==
    IF applied[Len(applied)].plugin = "mqtt_plugin" THEN {"name", "topic"}
    ELSE {"tid_table", "server_name"}

KeyAbsent == \E k \in RequiredKeys : ~Has(AdapterConfig, k)

BrokerUnregistered == ~KeyAbsent /\ ~Has(mqtt_servers, AdapterConfig[BrokerKey])

BrokerDown ==
    /\ ~KeyAbsent /\ ~BrokerUnregistered
    /\ ~mqtt_servers[AdapterConfig[BrokerKey]].connected

ReturnedUnmodified ==
    result.kind = "return" /\ result.value = applied[Len(applied)].input

\* C12: when a required config key of a broker egress adapter is absent, its
\* named broker is not registered, or the broker is not connected, the
\* adapter returns its input packet unmodified, never None.
C12_PassThrough ==
    (applied # <<>> /\ (KeyAbsent \/ BrokerUnregistered \/ BrokerDown))
        => ReturnedUnmodified

\* C12, for the first two prerequisites: with a required key absent or the
\* named broker not registered, the adapter returns its input unmodified.
C12_ConfigAndRegistry ==
    (applied # <<>> /\ (KeyAbsent \/ BrokerUnregistered)) => ReturnedUnmodified

----------------------------------------------------------------------------
(* Claims about packets that lack the fields a stage reads *)

\* the packet is a mapping without decoded.position
WithoutPosition ==
    packet # None /\ ~(Has(packet, "decoded") /\ Has(packet.decoded, "position"))

\* C13, checked under SpecGeo: for every packet without decoded.position,
\* masking latitude or longitude configured or not, the geofence stage
\* completes without raising and returns the packet: not dropped, not failed.
\* (A registered device is taken to have a position, so that the packet is
\* all that is lacking.)
C13_MalformedInapplicable ==
    (applied # <<>> /\ WithoutPosition /\ (DeviceRegistered => DeviceLocated))
        => (result.kind = "return" /\ result.value = packet)

\* C13 without masking, checked under SpecGeo: with neither latitude nor
\* longitude configured, a packet without decoded.position is returned as it is.
C13_WithoutMasking ==
    (/\ applied # <<>> /\ WithoutPosition /\ (DeviceRegistered => DeviceLocated)
     /\ ~Has(config, "latitude") /\ ~Has(config, "longitude"))
        => (result.kind = "return" /\ result.value = packet)

----------------------------------------------------------------------------
(* Self-beacons under way at the same time.  Each thread runs               *)
(* report_self_position for a position packet of the connected radio; a    *)
(* step is one access to AprsPlugin.telemetry_seq or one send, and the     *)
(* steps of different threads interleave in any order.  The session is up  *)
(* and the config carries igate, so that every call sends its beacon.      *)

NumThreads == 2

MaxBeacons == 4

Threads == 1..NumThreads

\* a thread between calls
Idle == [pc |-> "idle", read |-> -1]

\* the calls begun so far
Begun == Len(published) + Cardinality({t \in Threads : threads[t].pc # "idle"})

InitConcurrent ==
    /\ packet = PositionPacket(1)
    /\ config = [callsign |-> "GATE-10",
                 aprs_is |-> [server |-> "rotate.aprs2.net", port |-> 14580],
                 igate |-> [comment |-> <<77>>]]
    /\ devices = EmptyDict
    /\ applied = <<>>
    /\ result = Pending
    /\ interface = [num |-> 1, nodesByNum |-> NodeDirectory]
    /\ telemetry_seq = -1
    /\ sent = <<>>
    /\ seq_before = -1
    /\ emitted = <<>>
    /\ announced = 0
    /\ mqtt_servers = EmptyDict
    /\ configured = config
    /\ threads = [t \in Threads |-> Idle]
    /\ published = <<>>
    /\ delivered = <<>>

\* lines 461-462: a pipeline invocation calls report_self_position
BeginSelfBeacon(t) ==
    /\ threads[t].pc = "idle"
    /\ Begun < MaxBeacons
    /\ is_position_packet(packet) /\ packet.from = interface.num
    /\ threads' = [threads EXCEPT ![t].pc = "announce"]
    /\ UNCHANGED <<packet, config, devices, applied, result, aprsVars,
                   mqtt_servers, configured, published, delivered>>

\* lines 492-498: the announcement, if telemetry_seq is -1
AnnounceSchema(t) ==
    /\ threads[t].pc = "announce"
    /\ IF telemetry_seq = -1
       THEN /\ sent' = <<MetaBeacon(config)>>
            /\ announced' = announced + 1
       ELSE UNCHANGED <<sent, announced>>
    /\ threads' = [threads EXCEPT ![t].pc = "read"]
    /\ UNCHANGED <<packet, config, devices, applied, result, interface,
                   telemetry_seq, seq_before, emitted,
                   mqtt_servers, configured, published, delivered>>

\* line 560, right-hand side: self.telemetry_seq is read
ReadCounter(t) ==
    /\ threads[t].pc = "read"
    /\ threads' = [threads EXCEPT ![t] = [pc |-> "write", read |-> telemetry_seq]]
    /\ UNCHANGED <<packet, config, devices, applied, result, aprsVars,
                   mqtt_servers, configured, published, delivered>>

\* line 561: self.telemetry_seq is assigned
WriteCounter(t) ==
    /\ threads[t].pc = "write"
    /\ seq_before' = telemetry_seq
    /\ telemetry_seq' =
          encode_igate_telemetry(get_igate_telemetry(interface), threads[t].read).telemetry_seq
    /\ threads' = [threads EXCEPT ![t].pc = "send"]
    /\ UNCHANGED <<packet, config, devices, applied, result, interface, sent,
                   emitted, announced, mqtt_servers, configured, published,
                   delivered>>

\* lines 563-564 and 501-510: the beacon, with the number this call computed
SendBeacon(t) ==
    /\ threads[t].pc = "send"
    /\ LET telemetry ==
              encode_igate_telemetry(get_igate_telemetry(interface), threads[t].read)
           beacon == IGateBeacon(config, packet.decoded.position, telemetry.text)
       IN  /\ sent' = <<beacon>>
           /\ published' = Append(published, TelemetrySeqOf(beacon))
           /\ emitted' = LastTwo(Append(emitted, TelemetrySeqOf(beacon)))
    /\ threads' = [threads EXCEPT ![t] = Idle]
    /\ UNCHANGED <<packet, config, devices, applied, result, interface,
                   telemetry_seq, seq_before, announced, mqtt_servers, configured,
                   delivered>>

NextConcurrent ==
    \E t \in Threads :
        \/ BeginSelfBeacon(t)
        \/ AnnounceSchema(t)
        \/ ReadCounter(t)
        \/ WriteCounter(t)
        \/ SendBeacon(t)

SpecConcurrent == InitConcurrent /\ [][NextConcurrent]_vars

----------------------------------------------------------------------------
(* Claims about concurrent self-beacons, checked under SpecConcurrent *)

\* C14: however the reads and writes of the counter by concurrent self-beacon
\* calls interleave, no two published beacons carry the same sequence number,
\* and once every call has ended the counter has advanced by exactly one per
\* published beacon (from -1, fewer than 1000 beacons being published).
C14_NoCollision ==
    /\ \A i, j \in 1..Len(published) : i # j => published[i] # published[j]
    /\ (\A t \in Threads : threads[t].pc = "idle")
          => telemetry_seq = Len(published) - 1

----------------------------------------------------------------------------
(* WebhookPlugin and NoStrPlugin, the two stages that expand environment    *)
(* variables in their configuration.  A text with macros is a sequence of   *)
(* pieces, as above; the body of a webhook is taken to be a JSON document   *)
(* once its macros are replaced.                                            *)

\* os.environ
environ == [TOKEN |-> "s3cret", HOME |-> "/root"]

\* lines 284 and 765: "{" + ek + "}"
Needle(ek) == IF ek = "TOKEN" THEN "{TOKEN}" ELSE "{HOME}"

\* lines 283-286 and 764-769: every needle of the environment replaced
RECURSIVE Expand(_, _)
Expand(pieces, names) ==
    IF names = {} THEN pieces
    ELSE LET ek == CHOOSE n \in names : TRUE
         IN  Expand(Replace(pieces, Needle(ek), <<environ[ek]>>), names \ {ek})

\* str(value), in pieces
StrOf(v) ==
    CASE v = None -> <<"None">>
      [] v = <<>> -> <<>>
      [] TypeOf(v) = "str" -> v.chars
      [] TypeOf(v) = "int" -> <<ToString(v.n)>>

\* lines 263-269: the macros of a webhook body, in order
Macros(p, cfg) ==
    LET position == IF Has(p.decoded, "position") THEN p.decoded.position ELSE None
        text == IF Has(p.decoded, "text") THEN p.decoded.text ELSE None
    IN  << <<"{LAT}", IF position # None THEN StrOf(position.latitude) ELSE <<>> >>,
           <<"{LNG}", IF position # None THEN StrOf(position.longitude) ELSE <<>> >>,
           <<"{MSG}", IF Has(cfg, "message") THEN cfg.message ELSE StrOf(text)>>,
           <<"{FID}", StrOf(p.fromId)>>,
           <<"{TID}", StrOf(p.toId)>> >>

\* lines 273-274: the macros replaced one after the other
RECURSIVE ReplaceAll(_, _)
ReplaceAll(body, macros) ==
    IF macros = <<>> THEN body
    ELSE ReplaceAll(Replace(body, Head(macros)[1], Head(macros)[2]), Tail(macros))

\* lines 248-295: the outcome, the config after the call, and the request posted
WebhookPlugin_do_action(p, cfg, response_ok) ==
    IF Has(cfg, "active") /\ ~cfg.active
    THEN [result |-> Return(p, <<>>), config |-> cfg, delivered |-> <<>>]
    ELSE IF ~Has(cfg, "body")
    THEN [result |-> Return(p, <<"Missing config: body">>), config |-> cfg,
          delivered |-> <<>>]
    ELSE IF ~(Has(p, "decoded") /\ Has(p, "fromId") /\ Has(p, "toId") /\ Has(cfg, "url"))
    THEN [result |-> Raise("KeyError"), config |-> cfg, delivered |-> <<>>]
    ELSE LET payload == ReplaceAll(cfg.body, Macros(p, cfg))
             headers == IF Has(cfg, "headers")
                        THEN [k \in DOMAIN cfg.headers |->
                                 Expand(cfg.headers[k], DOMAIN environ)]
                        ELSE EmptyDict
         IN  [result |-> Return(p, IF response_ok THEN <<>> ELSE <<"Error returned">>),
              config |-> IF Has(cfg, "headers") THEN [cfg EXCEPT !.headers = headers]
                         ELSE cfg,
              delivered |-> <<[url |-> cfg.url, headers |-> headers, json |-> payload]>>]

\* lines 736-792: the outcome, the config after the call, and the event published
NoStrPlugin_do_action(p, cfg) ==
    IF ~Has(cfg, "private_key")
    THEN [result |-> Return(p, <<"Missing private_key">>), config |-> cfg,
          delivered |-> <<>>]
    ELSE IF ~Has(cfg, "public_key")
    THEN [result |-> Return(p, <<"Missing public_key">>), config |-> cfg,
          delivered |-> <<>>]
    ELSE LET relays == <<"wss://nostr-pub.wellorder.net", "wss://relay.damus.io">>
                          \o (IF Has(cfg, "relays") THEN cfg.relays ELSE <<>>)
             expanded == [cfg EXCEPT !.private_key = Expand(cfg.private_key, DOMAIN environ)]
         IN  IF ~(Has(p, "decoded") /\ Has(p.decoded, "text"))
             THEN [result |-> Raise("KeyError"), config |-> expanded, delivered |-> <<>>]
             ELSE [result |-> Return(p, <<"Sent message to NoStr">>),
                   config |-> expanded,
                   delivered |->
                       <<[relays |-> relays,
                          public_key |-> cfg.public_key,
                          signed_by |-> expanded.private_key,
                          content |-> IF Has(cfg, "message")
                                      THEN Replace(cfg.message, "{MSG}", p.decoded.text.chars)
                                      ELSE p.decoded.text.chars]>>]

----------------------------------------------------------------------------
(* the specification of the two stages: any sequence of calls on a packet *)

WebhookConfigs ==
    {active @@ body @@ url @@ headers @@ message :
        active \in Opt("active", BOOLEAN),
        body \in Opt("body", {<<"{\"from\": \"", "{FID}", "\", \"text\": \"", "{MSG}", "\"}">>}),
        url \in Opt("url", {"https://hook.example/in"}),
        headers \in Opt("headers", {[Authorization |-> <<"Bearer ", "{TOKEN}">>],
                                    [Accept |-> <<"application/json">>]}),
        message \in Opt("message", {<<"ping">>})}

NoStrConfigs ==
    {private_key @@ public_key @@ relays @@ message :
        private_key \in Opt("private_key", {<<"{TOKEN}">>, <<"nsec1">>}),
        public_key \in Opt("public_key", {<<"npub1">>}),
        relays \in Opt("relays", {<<"wss://relay.example">>}),
        message \in Opt("message", {<<"mesh: ", "{MSG}">>})}

SinkPackets ==
    {[fromId |-> PyStr(<<"!a">>), toId |-> PyStr(<<"!b">>),
      decoded |-> [text |-> PyStr(<<"h", "i">>)]],
     [fromId |-> PyStr(<<"!a">>), toId |-> PyStr(<<"!b">>),
      decoded |-> [position |-> [latitude |-> PyInt(1), longitude |-> PyInt(2)]]],
     [fromId |-> PyStr(<<"!a">>)]}

InitSinks ==
    /\ packet \in SinkPackets
    /\ config \in [webhook : WebhookConfigs, nostr_plugin : NoStrConfigs]
    /\ devices = EmptyDict
    /\ applied = <<>>
    /\ result = Pending
    /\ AprsIdle
    /\ RestIdle

\* one call of WebhookPlugin.do_action, the endpoint answering ok or not
WebhookPluginApply ==
    \E response_ok \in BOOLEAN :
        LET out == WebhookPlugin_do_action(packet, config.webhook, response_ok)
        IN  /\ result' = out.result
            /\ config' = [config EXCEPT !.webhook = out.config]
            /\ delivered' = out.delivered
            /\ applied' = <<Call("webhook", packet)>>
            /\ UNCHANGED <<packet, devices, aprsVars, mqtt_servers, configured,
                           threads, published>>

\* one call of NoStrPlugin.do_action
NoStrPluginApply ==
    LET out == NoStrPlugin_do_action(packet, config.nostr_plugin)
    IN  /\ result' = out.result
        /\ config' = [config EXCEPT !.nostr_plugin = out.config]
        /\ delivered' = out.delivered
        /\ applied' = <<Call("nostr_plugin", packet)>>
        /\ UNCHANGED <<packet, devices, aprsVars, mqtt_servers, configured,
                       threads, published>>

NextSinks == WebhookPluginApply \/ NoStrPluginApply

SpecSinks == InitSinks /\ [][NextSinks]_vars

----------------------------------------------------------------------------
(* Claims about the configuration of a stage, checked under SpecSinks *)

\* C15: after configure, no sequence of do_action calls changes the
\* configuration mapping of a stage or any value nested in it.
C15_ConfigImmutable == config = configured

\* the configuration of a stage but for one of its keys
Without(cfg, key) == [k \in DOMAIN cfg \ {key} |-> cfg[k]]

\* C15 but for the two expanded values: no sequence of calls changes any key
\* of a configuration or any value other than the webhook's headers and the
\* relay stage's private_key.
C15_OtherValues ==
    /\ DOMAIN config.webhook = DOMAIN configured.webhook
    /\ DOMAIN config.nostr_plugin = DOMAIN configured.nostr_plugin
    /\ Without(config.webhook, "headers") = Without(configured.webhook, "headers")
    /\ Without(config.nostr_plugin, "private_key")
          = Without(configured.nostr_plugin, "private_key")

====
